---- MODULE Spec2Model ----
(***************************************************************************)
(* ChessBrain: fixed-depth negamax with alpha-beta pruning and heuristic   *)
(* move ordering (engine.py) over the static evaluator (evaluator.py).     *)
(*                                                                         *)
(* The board is the python-chess Board the engine mutates in place.  It is *)
(* modelled on the full 8x8 board with the six piece kinds, en passant,    *)
(* promotion, the halfmove clock and the stack of applied moves.  No       *)
(* position here has castling rights, so castling is never legal and is    *)
(* not generated.                                                          *)
(***************************************************************************)
EXTENDS Integers, Sequences, FiniteSets, TLC

(***************************************************************************)
(* Bounds of the model.                                                    *)
(***************************************************************************)
\* engine depths explored: 0..MaxDepth; a search below depth 0 (negative
\* remaining depth) is followed for at most MaxDepth plies
MaxDepth == 3
\* top-level calls made on one engine in a session
MaxCalls == 2

(***************************************************************************)
(* python-chess constants.                                                 *)
(***************************************************************************)
WHITE == TRUE
BLACK == FALSE
PAWN == 1
KNIGHT == 2
BISHOP == 3
ROOK == 4
QUEEN == 5
KING == 6
\* None, for a square, a piece, a piece type or a move
None == 0
SQUARES == 0 .. 63

\* a piece is its type for White and its type + 6 for Black; None is 0
Piece(piece_type, color) == IF color = WHITE THEN piece_type ELSE piece_type + 6
piece_type_of(p) == IF p > 6 THEN p - 6 ELSE p
color_of(p) == p <= 6

square_file(sq) == sq % 8
square_rank(sq) == sq \div 8
square(f, r) == 8 * r + f
square_mirror(sq) == square(square_file(sq), 7 - square_rank(sq))

Abs(x) == IF x < 0 THEN -x ELSE x
Max(x, y) == IF x >= y THEN x ELSE y
Sgn(x) == IF x > 0 THEN 1 ELSE IF x < 0 THEN -1 ELSE 0

\* the squares strictly between two squares of one rank, file or diagonal
Between(s, t) ==
    LET df == square_file(t) - square_file(s)
        dr == square_rank(t) - square_rank(s)
        n  == Max(Abs(df), Abs(dr))
    IN  { square(square_file(s) + k * Sgn(df), square_rank(s) + k * Sgn(dr)) :
            k \in 1 .. (n - 1) }

\* does the piece standing on s attack t (Board.attacks_mask)
Attacks(pieces, s, t) ==
    LET p  == pieces[s]
        pt == piece_type_of(p)
        df == square_file(t) - square_file(s)
        dr == square_rank(t) - square_rank(s)
        clear == \A m \in Between(s, t) : pieces[m] = None
    IN  /\ s # t
        /\ CASE pt = PAWN   -> Abs(df) = 1 /\ dr = (IF color_of(p) = WHITE THEN 1 ELSE -1)
             [] pt = KNIGHT -> {Abs(df), Abs(dr)} = {1, 2}
             [] pt = KING   -> Abs(df) <= 1 /\ Abs(dr) <= 1
             [] pt = ROOK   -> (df = 0 \/ dr = 0) /\ clear
             [] pt = BISHOP -> Abs(df) = Abs(dr) /\ clear
             [] pt = QUEEN  -> (df = 0 \/ dr = 0 \/ Abs(df) = Abs(dr)) /\ clear
             [] OTHER       -> FALSE

\* squares holding a piece of the colour
occupied_co(pieces, color) ==
    { s \in SQUARES : pieces[s] # None /\ color_of(pieces[s]) = color }

\* Board.is_attacked_by
is_attacked_by(pieces, color, sq) ==
    \E s \in occupied_co(pieces, color) : Attacks(pieces, s, sq)

\* Board.king: the square of the colour's king, None (-1 here) without one
NoSquare == -1
king(pieces, color) ==
    LET ks == { s \in SQUARES : pieces[s] = Piece(KING, color) }
    IN  IF ks = {} THEN NoSquare ELSE CHOOSE s \in ks : TRUE

Move(from_square, to_square, promotion) ==
    [from_square |-> from_square, to_square |-> to_square, promotion |-> promotion]

\* Board.is_en_passant
is_en_passant(b, move) ==
    /\ b.ep_square = move.to_square
    /\ piece_type_of(b.pieces[move.from_square]) = PAWN
    /\ Abs(move.to_square - move.from_square) \in {7, 9}
    /\ b.pieces[move.to_square] = None

\* Board.is_capture
is_capture(b, move) ==
    \/ /\ b.pieces[move.to_square] # None
       /\ color_of(b.pieces[move.to_square]) # b.turn
    \/ is_en_passant(b, move)

\* the placement after the move, whoever is to move
pieces_after(b, move) ==
    LET p     == b.pieces[move.from_square]
        c     == color_of(p)
        down  == IF c = WHITE THEN -8 ELSE 8
        moved == IF move.promotion # None THEN Piece(move.promotion, c) ELSE p
        plain == [b.pieces EXCEPT ![move.from_square] = None, ![move.to_square] = moved]
    IN  IF is_en_passant(b, move)
        THEN [plain EXCEPT ![move.to_square + down] = None]
        ELSE plain

\* Board.push: apply the move and remember the state it replaces
push(b, move) ==
    LET p      == b.pieces[move.from_square]
        zero   == piece_type_of(p) = PAWN \/ is_capture(b, move)
        double == piece_type_of(p) = PAWN /\ Abs(move.to_square - move.from_square) = 16
    IN  [pieces         |-> pieces_after(b, move),
         turn           |-> ~b.turn,
         ep_square      |-> IF double THEN (move.from_square + move.to_square) \div 2
                            ELSE NoSquare,
         halfmove_clock |-> IF zero THEN 0 ELSE b.halfmove_clock + 1,
         move_stack     |-> Append(b.move_stack, move),
         saved          |-> Append(b.saved, [pieces |-> b.pieces, turn |-> b.turn,
                                ep_square |-> b.ep_square,
                                halfmove_clock |-> b.halfmove_clock])]

\* Board.pop: undo the most recent move not yet undone
pop(b) ==
    LET n == Len(b.saved)
        s == b.saved[n]
    IN  [pieces         |-> s.pieces,
         turn           |-> s.turn,
         ep_square      |-> s.ep_square,
         halfmove_clock |-> s.halfmove_clock,
         move_stack     |-> SubSeq(b.move_stack, 1, n - 1),
         saved          |-> SubSeq(b.saved, 1, n - 1)]

(***************************************************************************)
(* Legal moves (Board.legal_moves), in the board's own enumeration order.  *)
(***************************************************************************)
\* squares a piece kind reaches from a square on an empty board
Reach ==
    [pt \in KNIGHT .. KING |-> [s \in SQUARES |->
        { t \in SQUARES :
            LET df == Abs(square_file(t) - square_file(s))
                dr == Abs(square_rank(t) - square_rank(s))
            IN  /\ s # t
                /\ CASE pt = KNIGHT -> {df, dr} = {1, 2}
                     [] pt = KING   -> df <= 1 /\ dr <= 1
                     [] pt = ROOK   -> df = 0 \/ dr = 0
                     [] pt = BISHOP -> df = dr
                     [] OTHER       -> df = 0 \/ dr = 0 \/ df = dr }]]

PROMOTIONS == {QUEEN, ROOK, BISHOP, KNIGHT}

\* the pawn moves from s of a pawn of colour c
pawn_moves(b, s, c) ==
    LET up      == IF c = WHITE THEN 8 ELSE -8
        r       == square_rank(s)
        home    == IF c = WHITE THEN 1 ELSE 6
        last    == IF c = WHITE THEN 7 ELSE 0
        eprank  == IF c = WHITE THEN 4 ELSE 3
        fwd     == s + up
        caps    == { t \in {fwd - 1, fwd + 1} :
                       /\ t \in SQUARES
                       /\ Abs(square_file(t) - square_file(s)) = 1
                       /\ \/ b.pieces[t] # None /\ color_of(b.pieces[t]) # c
                          \/ t = b.ep_square /\ b.pieces[t] = None /\ r = eprank }
        single  == IF fwd \in SQUARES /\ b.pieces[fwd] = None THEN {fwd} ELSE {}
        double  == IF r = home /\ single # {} /\ b.pieces[fwd + up] = None
                   THEN {fwd + up} ELSE {}
        targets == caps \cup single \cup double
    IN  { Move(s, t, IF square_rank(t) = last THEN pr ELSE None) :
            <<t, pr>> \in { x \in targets \X PROMOTIONS :
                              square_rank(x[1]) = last \/ x[2] = QUEEN } }

\* Board.generate_pseudo_legal_moves for the colour c
pseudo_legal_moves(b, c) ==
    UNION { IF piece_type_of(b.pieces[s]) = PAWN
            THEN pawn_moves(b, s, c)
            ELSE { Move(s, t, None) :
                     t \in { u \in Reach[piece_type_of(b.pieces[s])][s] :
                               /\ b.pieces[u] = None \/ color_of(b.pieces[u]) # c
                               /\ Attacks(b.pieces, s, u) } } :
            s \in occupied_co(b.pieces, c) }

\* the set behind Board.legal_moves, for the side b.turn: the pseudo-legal
\* moves that do not leave the mover's king attacked (Board.is_legal)
legal_move_set(b) ==
    LET c       == b.turn
        k0      == king(b.pieces, c)
        enemies == occupied_co(b.pieces, ~c)
        safe(m) ==
            LET after == pieces_after(b, m)
                k     == IF m.from_square = k0 THEN m.to_square ELSE k0
            IN  \/ k = NoSquare
                \/ \A s \in enemies :
                      \/ after[s] = None
                      \/ color_of(after[s]) = c
                      \/ ~Attacks(after, s, k)
    IN  { m \in pseudo_legal_moves(b, c) : safe(m) }

\* the board's enumeration order: by from-square, to-square, promotion, descending
move_key(m) == 512 * m.from_square + 8 * m.to_square + m.promotion

RECURSIVE seq_of_moves(_)
seq_of_moves(S) ==
    IF S = {} THEN << >>
    ELSE LET m == CHOOSE x \in S : \A y \in S : move_key(y) <= move_key(x)
         IN  <<m>> \o seq_of_moves(S \ {m})

\* list(board.legal_moves)
legal_moves(b) == seq_of_moves(legal_move_set(b))

\* board.legal_moves.count()
legal_moves_count(b) == Cardinality(legal_move_set(b))

(***************************************************************************)
(* Status queries of the board.                                            *)
(***************************************************************************)
is_check(b) ==
    LET k == king(b.pieces, b.turn)
    IN  k # NoSquare /\ is_attacked_by(b.pieces, ~b.turn, k)

is_checkmate(b) == is_check(b) /\ legal_move_set(b) = {}

is_stalemate(b) == ~is_check(b) /\ legal_move_set(b) = {}

\* Board.pieces(piece_type, color)
pieces_of(b, piece_type, color) ==
    { s \in SQUARES : b.pieces[s] = Piece(piece_type, color) }

\* Board.has_insufficient_material
has_insufficient_material(b, color) ==
    LET own    == occupied_co(b.pieces, color)
        other  == occupied_co(b.pieces, ~color)
        kinds(S) == { piece_type_of(b.pieces[s]) : s \in S }
        all    == kinds(own \cup other)
        dark(s) == (square_file(s) + square_rank(s)) % 2 = 0
        bishops == { s \in SQUARES : piece_type_of(b.pieces[s]) = BISHOP }
    IN  IF kinds(own) \cap {PAWN, ROOK, QUEEN} # {} THEN FALSE
        ELSE IF KNIGHT \in kinds(own)
             THEN Cardinality(own) <= 2 /\ kinds(other) \subseteq {KING, QUEEN}
        ELSE IF BISHOP \in kinds(own)
             THEN /\ (\A s \in bishops : dark(s)) \/ (\A s \in bishops : ~dark(s))
                  /\ PAWN \notin all
                  /\ KNIGHT \notin all
        ELSE TRUE

is_insufficient_material(b) ==
    has_insufficient_material(b, WHITE) /\ has_insufficient_material(b, BLACK)

\* the halfmove clock at which the seventy-five-move rule ends the game
SEVENTYFIVE == 150

is_seventyfive_moves(b) ==
    b.halfmove_clock >= SEVENTYFIVE /\ legal_move_set(b) # {}

\* Board.is_game_over.  Fivefold repetition needs sixteen plies on the move
\* stack, more than any search here applies, so it never ends the game.
is_game_over(b) ==
    \/ legal_move_set(b) = {}
    \/ is_insufficient_material(b)
    \/ is_seventyfive_moves(b)

(***************************************************************************)
(* evaluator.py: PositionEvaluator.                                        *)
(***************************************************************************)
PIECE_VALUES ==
    [pt \in PAWN .. KING |->
        CASE pt = PAWN   -> 100
          [] pt = KNIGHT -> 320
          [] pt = BISHOP -> 330
          [] pt = ROOK   -> 500
          [] pt = QUEEN  -> 900
          [] pt = KING   -> 20000]

\* the mate score of evaluate_position
MATE_SCORE == 20000

PAWN_TABLE ==
    << 0,   0,   0,   0,   0,   0,   0,   0,
        50,  50,  50,  50,  50,  50,  50,  50,
        10,  10,  20,  30,  30,  20,  10,  10,
         5,   5,  10,  25,  25,  10,   5,   5,
         0,   0,   0,  20,  20,   0,   0,   0,
         5,  -5, -10,   0,   0, -10,  -5,   5,
         5,  10,  10, -20, -20,  10,  10,   5,
         0,   0,   0,   0,   0,   0,   0,   0 >>

KNIGHT_TABLE ==
    << -50, -40, -30, -30, -30, -30, -40, -50,
       -40, -20,   0,   0,   0,   0, -20, -40,
       -30,   0,  10,  15,  15,  10,   0, -30,
       -30,   5,  15,  20,  20,  15,   5, -30,
       -30,   0,  15,  20,  20,  15,   0, -30,
       -30,   5,  10,  15,  15,  10,   5, -30,
       -40, -20,   0,   5,   5,   0, -20, -40,
       -50, -40, -30, -30, -30, -30, -40, -50 >>

BISHOP_TABLE ==
    << -20, -10, -10, -10, -10, -10, -10, -20,
       -10,   0,   0,   0,   0,   0,   0, -10,
       -10,   0,   5,  10,  10,   5,   0, -10,
       -10,   5,   5,  10,  10,   5,   5, -10,
       -10,   0,  10,  10,  10,  10,   0, -10,
       -10,  10,  10,  10,  10,  10,  10, -10,
       -10,   5,   0,   0,   0,   0,   5, -10,
       -20, -10, -10, -10, -10, -10, -10, -20 >>

ROOK_TABLE ==
    << 0,   0,   0,   0,   0,   0,   0,   0,
         5,  10,  10,  10,  10,  10,  10,   5,
        -5,   0,   0,   0,   0,   0,   0,  -5,
        -5,   0,   0,   0,   0,   0,   0,  -5,
        -5,   0,   0,   0,   0,   0,   0,  -5,
        -5,   0,   0,   0,   0,   0,   0,  -5,
        -5,   0,   0,   0,   0,   0,   0,  -5,
         0,   0,   0,   5,   5,   0,   0,   0 >>

QUEEN_TABLE ==
    << -20, -10, -10,  -5,  -5, -10, -10, -20,
       -10,   0,   0,   0,   0,   0,   0, -10,
       -10,   0,   5,   5,   5,   5,   0, -10,
        -5,   0,   5,   5,   5,   5,   0,  -5,
         0,   0,   5,   5,   5,   5,   0,  -5,
       -10,   5,   5,   5,   5,   5,   0, -10,
       -10,   0,   5,   0,   0,   0,   0, -10,
       -20, -10, -10,  -5,  -5, -10, -10, -20 >>

KING_MIDDLE_TABLE ==
    << -30, -40, -40, -50, -50, -40, -40, -30,
       -30, -40, -40, -50, -50, -40, -40, -30,
       -30, -40, -40, -50, -50, -40, -40, -30,
       -30, -40, -40, -50, -50, -40, -40, -30,
       -20, -30, -30, -40, -40, -30, -30, -20,
       -10, -20, -20, -20, -20, -20, -20, -10,
        20,  20,   0,   0,   0,   0,  20,  20,
        20,  30,  10,   0,   0,  10,  30,  20 >>

KING_END_TABLE ==
    << -50, -40, -30, -20, -20, -30, -40, -50,
       -30, -20, -10,   0,   0, -10, -20, -30,
       -30, -10,  20,  30,  30,  20, -10, -30,
       -30, -10,  30,  40,  40,  30, -10, -30,
       -30, -10,  30,  40,  40,  30, -10, -30,
       -30, -10,  20,  30,  30,  20, -10, -30,
       -30, -30,   0,   0,   0,   0, -30, -30,
       -50, -30, -30, -30, -30, -30, -30, -50 >>

\* self.position_tables
position_tables ==
    [pt \in PAWN .. KING |->
        CASE pt = PAWN   -> PAWN_TABLE
          [] pt = KNIGHT -> KNIGHT_TABLE
          [] pt = BISHOP -> BISHOP_TABLE
          [] pt = ROOK   -> ROOK_TABLE
          [] pt = QUEEN  -> QUEEN_TABLE
          [] pt = KING   -> KING_MIDDLE_TABLE]

RECURSIVE SumOver(_, _)
\* the sum of f[x] over the finite set S
SumOver(f, S) ==
    IF S = {} THEN 0
    ELSE LET x == CHOOSE y \in S : TRUE IN f[x] + SumOver(f, S \ {x})

_evaluate_material(b) ==
    SumOver([pt \in PAWN .. QUEEN |->
                 Cardinality(pieces_of(b, pt, WHITE)) * PIECE_VALUES[pt]
               - Cardinality(pieces_of(b, pt, BLACK)) * PIECE_VALUES[pt]],
            PAWN .. QUEEN)

_is_endgame(b) ==
    LET n(pt, c) == Cardinality(pieces_of(b, pt, c))
        queens == n(QUEEN, WHITE) + n(QUEEN, BLACK)
        minor_pieces == n(KNIGHT, WHITE) + n(BISHOP, WHITE)
                      + n(KNIGHT, BLACK) + n(BISHOP, BLACK)
    IN  queens = 0 \/ (queens = 2 /\ minor_pieces <= 2)

_evaluate_piece_positioning(b) ==
    LET is_endgame == _is_endgame(b)
        value(sq) ==
            LET p     == b.pieces[sq]
                pt    == piece_type_of(p)
                table == IF pt = KING
                         THEN (IF is_endgame THEN KING_END_TABLE ELSE KING_MIDDLE_TABLE)
                         ELSE position_tables[pt]
                table_square == IF color_of(p) = WHITE THEN sq ELSE square_mirror(sq)
                position_value == table[table_square + 1]
            IN  IF color_of(p) = WHITE THEN position_value ELSE -position_value
        occupied == { sq \in SQUARES : b.pieces[sq] # None }
    IN  SumOver([sq \in occupied |-> value(sq)], occupied)

\* the mobility term from the two counts
mobility_score(white_mobility, black_mobility) ==
    (white_mobility - black_mobility) * 10

_evaluate_pawn_structure(b) ==
    LET white_pawns == pieces_of(b, PAWN, WHITE)
        black_pawns == pieces_of(b, PAWN, BLACK)
        on_file(pawns, f) == Cardinality({ sq \in pawns : square_file(sq) = f })
        doubled(pawns, f) ==
            IF on_file(pawns, f) > 1 THEN 10 * (on_file(pawns, f) - 1) ELSE 0
        isolated(pawns, sq) ==
            LET f == square_file(sq)
            IN  IF /\ f > 0
                   /\ on_file(pawns, f - 1) = 0
                   /\ f < 7
                   /\ on_file(pawns, f + 1) = 0
                THEN 15 ELSE 0
    IN    SumOver([f \in 0 .. 7 |-> doubled(black_pawns, f) - doubled(white_pawns, f)],
                  0 .. 7)
        - SumOver([sq \in white_pawns |-> isolated(white_pawns, sq)], white_pawns)
        + SumOver([sq \in black_pawns |-> isolated(black_pawns, sq)], black_pawns)

\* Python truth of a square: None and square 0 (a1) are both false
truthy_square(sq) == sq # NoSquare /\ sq # 0

_evaluate_king_safety(b) ==
    LET white_king_sq == king(b.pieces, WHITE)
        black_king_sq == king(b.pieces, BLACK)
        off_centre(sq) == square_file(sq) < 3 \/ square_file(sq) > 4
    IN    (IF truthy_square(white_king_sq) /\ off_centre(white_king_sq) THEN 20 ELSE 0)
        - (IF truthy_square(black_king_sq) /\ off_centre(black_king_sq) THEN 20 ELSE 0)

\* is the position scored without the five terms, and with what
is_terminal_score(b) ==
    is_checkmate(b) \/ is_stalemate(b) \/ is_insufficient_material(b)

terminal_score(b) ==
    IF is_checkmate(b)
    THEN (IF b.turn = WHITE THEN -MATE_SCORE ELSE MATE_SCORE)
    ELSE 0

\* _evaluate_mobility when both counts succeed; the turn it overrides is
\* handled by the evaluation steps of the search below
_evaluate_mobility(b) ==
    mobility_score(legal_moves_count([b EXCEPT !.turn = WHITE]),
                   legal_moves_count([b EXCEPT !.turn = BLACK]))

\* evaluate_position when nothing fails
evaluate_position(b) ==
    IF is_terminal_score(b) THEN terminal_score(b)
    ELSE   _evaluate_material(b)
         + _evaluate_piece_positioning(b)
         + _evaluate_mobility(b)
         + _evaluate_pawn_structure(b)
         + _evaluate_king_safety(b)

(***************************************************************************)
(* engine.py: ChessEngine.  The pure parts of the search first.            *)
(***************************************************************************)
\* float('inf'): above every score the evaluator and the search produce
INF == 1000000

\* analyze_position's num_top_moves (its default, and what game.py passes)
NUM_TOP_MOVES == 5

\* None for a move
NoMove == Move(NoSquare, NoSquare, None)

\* 1 if board.turn == chess.WHITE else -1
color_multiplier_of(b) == IF b.turn = WHITE THEN 1 ELSE -1

\* move_priority up to the speculative push: the capture and promotion terms
move_priority_static(b, move) ==
    LET captured_piece == b.pieces[move.to_square]
        moving_piece   == b.pieces[move.from_square]
        capture ==
            IF is_capture(b, move) /\ captured_piece # None /\ moving_piece # None
            THEN   10 * PIECE_VALUES[piece_type_of(captured_piece)]
                 - PIECE_VALUES[piece_type_of(moving_piece)]
            ELSE 0
        promotion ==
            IF move.promotion # None THEN PIECE_VALUES[move.promotion] ELSE 0
    IN  capture + promotion

\* the bonus move_priority adds on the board after the speculative push
check_bonus(pushed) == IF is_check(pushed) THEN 50 ELSE 0

RECURSIVE insert_desc(_, _, _)
\* x with key k put into the pairs sorted by key, non-increasing, after every
\* pair whose key is at least k
insert_desc(x, k, sorted) ==
    IF sorted = << >> THEN << <<x, k>> >>
    ELSE IF Head(sorted)[2] >= k
         THEN <<Head(sorted)>> \o insert_desc(x, k, Tail(sorted))
         ELSE << <<x, k>> >> \o sorted

RECURSIVE sort_pairs_desc(_, _, _)
sort_pairs_desc(items, keys, n) ==
    IF n = 0 THEN << >>
    ELSE insert_desc(items[n], keys[n], sort_pairs_desc(items, keys, n - 1))

\* sorted(items, key=..., reverse=True): a stable sort, the keys in keys
sorted_reverse(items, keys) ==
    LET pairs == sort_pairs_desc(items, keys, Len(items))
    IN  [j \in 1 .. Len(items) |-> pairs[j][1]]

\* a slip in the child's window: negated but not swapped
child_window_unswapped(alpha, beta) == [alpha |-> -alpha, beta |-> -beta]

\* the window a child is searched with: (-beta, -alpha)
child_window(alpha, beta) == [alpha |-> -beta, beta |-> -alpha]

\* a slip in the depth test: the search stops one ply late
is_leaf_below_zero(b, d) == d < 0 \/ is_game_over(b)

\* depth == 0 or board.is_game_over()
is_leaf(b, d) == d = 0 \/ is_game_over(b)

\* eval_score * color_multiplier at a leaf
leaf_value(b, eval_score) == eval_score * color_multiplier_of(b)

\* a slip in the loop of _negamax: the break taken before board.pop()
negamax_break_before_pop(f, b, r) ==
    LET score == -r
        alpha == Max(f.alpha, score)
        last  == f.i = Len(f.legal_moves)
    IN  [board |-> IF f.beta <= alpha THEN b ELSE pop(b),
         frame |-> [f EXCEPT !.max_score = Max(f.max_score, score),
                             !.alpha = alpha,
                             !.i = f.i + 1,
                             !.pc = IF f.beta <= alpha \/ last THEN "return" ELSE "loop"]]

\* _negamax lines 55-62 once the child has returned r: the score, the undo,
\* the running maximum, alpha and the cutoff
negamax_after_child(f, b, r) ==
    LET score == -r
        alpha == Max(f.alpha, score)
        last  == f.i = Len(f.legal_moves)
    IN  [board |-> pop(b),
         frame |-> [f EXCEPT !.max_score = Max(f.max_score, score),
                             !.alpha = alpha,
                             !.i = f.i + 1,
                             !.pc = IF f.beta <= alpha \/ last THEN "return" ELSE "loop"]]

\* find_best_move lines 29-36 once the child has returned r
find_after_child(f, b, r) ==
    LET score  == -r
        better == score > f.best_score
        last   == f.i = Len(f.legal_moves)
    IN  [board |-> pop(b),
         frame |-> [f EXCEPT !.best_score = IF better THEN score ELSE f.best_score,
                             !.best_move = IF better THEN f.legal_moves[f.i]
                                           ELSE f.best_move,
                             !.alpha = Max(f.alpha, score),
                             !.i = f.i + 1,
                             !.pc = IF last THEN "return" ELSE "loop"]]

\* analyze_position lines 99-101 once the child has returned r
analyze_after_child(f, b, r) ==
    LET score == -r
        last  == f.i = Len(f.legal_moves)
    IN  [board |-> pop(b),
         frame |-> [f EXCEPT !.move_scores =
                                 Append(f.move_scores,
                                        [move  |-> f.legal_moves[f.i],
                                         score |-> score * f.color_multiplier]),
                             !.i = f.i + 1,
                             !.pc = IF last THEN "return" ELSE "loop"]]

\* a slip in the conversion: the side-to-move score stored as it is
reported_score_unsigned(best_score, color_multiplier) == best_score

\* best_score * color_multiplier, what find_best_move stores as best_move_score
reported_score(best_score, color_multiplier) == best_score * color_multiplier

\* move_scores.sort(key=score, reverse=True) and the slice [:num_top_moves]
top_move_scores(move_scores) ==
    LET ranked == sorted_reverse(move_scores,
                                 [j \in 1 .. Len(move_scores) |-> move_scores[j].score])
    IN  SubSeq(ranked, 1, IF Len(ranked) < NUM_TOP_MOVES THEN Len(ranked)
                          ELSE NUM_TOP_MOVES)

\* the counter find_best_move starts from (line 16)
find_reset(nodes) == 0

\* the counter analyze_position starts from: it is not touched
analyze_reset(nodes) == nodes

\* the arguments of the child call: find_best_move and _negamax pass depth - 1
\* and the negated window, analyze_position self.depth - 1 and the full window
child_call(f, engine_depth) ==
    IF f.fn = "analyze"
    THEN [depth |-> engine_depth - 1, alpha |-> -INF, beta |-> INF]
    ELSE [depth |-> f.depth - 1,
          alpha |-> child_window(f.alpha, f.beta).alpha,
          beta  |-> child_window(f.alpha, f.beta).beta]

(***************************************************************************)
(* Positions the engine is run on.                                         *)
(***************************************************************************)
WK == Piece(KING, WHITE)
WR == Piece(ROOK, WHITE)
WP == Piece(PAWN, WHITE)
BK == Piece(KING, BLACK)
BP == Piece(PAWN, BLACK)
BN == Piece(KNIGHT, BLACK)

\* chess.Board(fen): the placement, the side to move, the en passant square
\* and the halfmove clock of the FEN, and no move applied yet
Board(placement, turn, ep_square, halfmove_clock) ==
    [pieces         |-> [s \in SQUARES |->
                            IF s \in DOMAIN placement THEN placement[s] ELSE None],
     turn           |-> turn,
     ep_square      |-> ep_square,
     halfmove_clock |-> halfmove_clock,
     move_stack     |-> << >>,
     saved          |-> << >>]

\* 8/8/8/8/8/6K1/RR6/7k w - - 147: Ra1 and Rb1 mate at once, Rh2+ mates in two
MateInOne ==
    Board((22 :> WK) @@ (8 :> WR) @@ (9 :> WR) @@ (7 :> BK), WHITE, NoSquare, 147)
\* 8/8/8/8/P7/2K4k/6R1/8 b - - 148: Black may take the rook
RookEnPrise ==
    Board((18 :> WK) @@ (14 :> WR) @@ (24 :> WP) @@ (23 :> BK), BLACK, NoSquare, 148)
\* 7k/6R1/5K2/8/8/8/8/8 b - - 3: Black is stalemated
Stalemate ==
    Board((45 :> WK) @@ (54 :> WR) @@ (63 :> BK), BLACK, NoSquare, 3)
\* 8/8/8/8/8/6K1/1R6/R6k b - - 5: Black is checkmated
Checkmate ==
    Board((22 :> WK) @@ (0 :> WR) @@ (9 :> WR) @@ (7 :> BK), BLACK, NoSquare, 5)
\* 8/1P5k/5n2/3pP3/8/8/8/6K1 w - d6 0: the e-pawn may take the d-pawn en
\* passant or the knight, and the b-pawn promotes
EnPassant ==
    Board((6 :> WK) @@ (36 :> WP) @@ (49 :> WP) @@ (55 :> BK) @@ (35 :> BP)
              @@ (45 :> BN),
          WHITE, 43, 0)

Positions == {MateInOne, RookEnPrise, Stalemate, Checkmate, EnPassant}

(***************************************************************************)
(* The state: the board, the engine and the calls in progress.             *)
(***************************************************************************)
VARIABLES
    board,            \* the chess.Board the engine is given
    depth,            \* ChessEngine.depth
    nodes_evaluated,  \* ChessEngine.nodes_evaluated
    best_move_score,  \* ChessEngine.best_move_score
    frames,           \* the Python frames of the call in progress, outermost first
    ret,              \* the value the frame that just returned handed back
    status,           \* "idle", "running", "done" (returned) or "raised"
    best_move,        \* what find_best_move returned last
    top_moves,        \* what analyze_position returned last
    op,               \* the top-level call running or last run
    calls,            \* top-level calls made so far
    entry,            \* the board as the running call received it
    visits,           \* _negamax entries since the running call began
    pushes,           \* board.push calls since the running call began
    cutoffs           \* sibling loops of the running call ended by beta <= alpha

vars == <<board, depth, nodes_evaluated, best_move_score, frames, ret, status,
          best_move, top_moves, op, calls, entry, visits, pushes, cutoffs>>

\* a slip in the locals: best_move starts as the null move a1a1, not None
NewFrame_null_move(fn, d, alpha, beta) ==
    [fn |-> fn, pc |-> "enter", depth |-> d, alpha |-> alpha, beta |-> beta,
     legal_moves |-> << >>, i |-> 1, priorities |-> << >>, static |-> 0,
     best_score |-> -INF, best_move |-> Move(0, 0, None), max_score |-> -INF,
     move_scores |-> << >>, color_multiplier |-> 0,
     original_turn |-> WHITE, white_mobility |-> 0]

\* a fresh frame of fn with its arguments
NewFrame(fn, d, alpha, beta) ==
    [fn |-> fn, pc |-> "enter", depth |-> d, alpha |-> alpha, beta |-> beta,
     legal_moves |-> << >>, i |-> 1, priorities |-> << >>, static |-> 0,
     best_score |-> -INF, best_move |-> NoMove, max_score |-> -INF,
     move_scores |-> << >>, color_multiplier |-> 0,
     original_turn |-> WHITE, white_mobility |-> 0]

top == frames[Len(frames)]
SetTop(f) == [frames EXCEPT ![Len(frames)] = f]
PopFrame == SubSeq(frames, 1, Len(frames) - 1)
\* moves applied by the running call and not yet undone
applied == Len(board.move_stack) - Len(entry.move_stack)

Init ==
    /\ board \in Positions
    /\ depth \in 0 .. MaxDepth
    /\ nodes_evaluated = 0
    /\ best_move_score = 0
    /\ frames = << >>
    /\ ret = 0
    /\ status = "idle"
    /\ best_move = NoMove
    /\ top_moves = << >>
    /\ op = "none"
    /\ calls = 0
    /\ entry = board
    /\ visits = 0
    /\ pushes = 0
    /\ cutoffs = 0

\* find_best_move(board): lines 13-22
StartFind ==
    /\ status \in {"idle", "done"}
    /\ calls < MaxCalls
    /\ nodes_evaluated' = find_reset(nodes_evaluated)
    /\ frames' = << [NewFrame("find", depth, -INF, INF) EXCEPT
                        !.legal_moves = legal_moves(board), !.pc = "order"] >>
    /\ status' = "running"
    /\ op' = "find"
    /\ calls' = calls + 1
    /\ entry' = board
    /\ visits' = 0
    /\ pushes' = 0
    /\ cutoffs' = 0
    /\ ret' = 0
    /\ UNCHANGED <<board, depth, best_move_score, best_move, top_moves>>

\* analyze_position(board): lines 90-95
StartAnalyze ==
    /\ status \in {"idle", "done"}
    /\ calls < MaxCalls
    /\ nodes_evaluated' = analyze_reset(nodes_evaluated)
    /\ LET ms == legal_moves(board)
       IN  IF ms = << >>
           THEN /\ frames' = << >>
                /\ status' = "done"
                /\ top_moves' = << >>
           ELSE /\ frames' = << [NewFrame("analyze", depth, -INF, INF) EXCEPT
                                   !.legal_moves = ms, !.pc = "loop",
                                   !.color_multiplier = color_multiplier_of(board)] >>
                /\ status' = "running"
                /\ UNCHANGED top_moves
    /\ op' = "analyze"
    /\ calls' = calls + 1
    /\ entry' = board
    /\ visits' = 0
    /\ pushes' = 0
    /\ cutoffs' = 0
    /\ ret' = 0
    /\ UNCHANGED <<board, depth, best_move_score, best_move>>

\* _order_moves, move_priority lines 68-80: the static terms, then the
\* speculative push
OrderPush ==
    /\ status = "running"
    /\ top.pc = "order"
    /\ top.i <= Len(top.legal_moves)
    /\ LET move == top.legal_moves[top.i]
       IN  /\ frames' = SetTop([top EXCEPT !.static = move_priority_static(board, move),
                                           !.pc = "order_pushed"])
           /\ board' = push(board, move)
    /\ pushes' = pushes + 1
    /\ UNCHANGED <<depth, nodes_evaluated, best_move_score, ret, status, best_move,
                   top_moves, op, calls, entry, visits, cutoffs>>

\* move_priority lines 81-85: the check bonus and the pop
OrderPop ==
    /\ status = "running"
    /\ top.pc = "order_pushed"
    /\ frames' = SetTop([top EXCEPT
                           !.priorities = Append(top.priorities,
                                                 top.static + check_bonus(board)),
                           !.i = top.i + 1,
                           !.pc = "order"])
    /\ board' = pop(board)
    /\ UNCHANGED <<depth, nodes_evaluated, best_move_score, ret, status, best_move,
                   top_moves, op, calls, entry, visits, pushes, cutoffs>>

\* _order_moves line 87, and find_best_move line 25 after it
OrderDone ==
    /\ status = "running"
    /\ top.pc = "order"
    /\ top.i > Len(top.legal_moves)
    /\ frames' = SetTop([top EXCEPT
                           !.legal_moves = sorted_reverse(top.legal_moves, top.priorities),
                           !.i = 1,
                           !.color_multiplier =
                               IF top.fn = "find" THEN color_multiplier_of(board) ELSE 0,
                           !.pc = IF top.legal_moves = << >> THEN "return" ELSE "loop"])
    /\ UNCHANGED <<board, depth, nodes_evaluated, best_move_score, ret, status,
                   best_move, top_moves, op, calls, entry, visits, pushes, cutoffs>>

\* the loops' board.push(move) and the call of _negamax (lines 28-29, 54-55,
\* 98-99)
LoopPush ==
    /\ status = "running"
    /\ top.pc = "loop"
    /\ LET args == child_call(top, depth)
       IN  frames' = Append(SetTop([top EXCEPT !.pc = "wait"]),
                            NewFrame("negamax", args.depth, args.alpha, args.beta))
    /\ board' = push(board, top.legal_moves[top.i])
    /\ pushes' = pushes + 1
    /\ UNCHANGED <<depth, nodes_evaluated, best_move_score, ret, status, best_move,
                   top_moves, op, calls, entry, visits, cutoffs>>

\* _negamax lines 42-50 and evaluate_position lines 102-106.  A node below
\* depth 0 is expanded only within MaxDepth plies of the root.
NegamaxEnter ==
    /\ status = "running"
    /\ top.fn = "negamax"
    /\ top.pc = "enter"
    /\ nodes_evaluated' = nodes_evaluated + 1
    /\ visits' = visits + 1
    /\ IF is_leaf(board, top.depth)
       THEN IF is_terminal_score(board)
            THEN /\ frames' = PopFrame
                 /\ ret' = leaf_value(board, terminal_score(board))
                 /\ UNCHANGED board
            ELSE /\ frames' = SetTop([top EXCEPT !.original_turn = board.turn,
                                                 !.pc = "mobility_white"])
                 /\ board' = [board EXCEPT !.turn = WHITE]
                 /\ UNCHANGED ret
       ELSE /\ top.depth > 0 \/ applied < MaxDepth
            /\ frames' = SetTop([top EXCEPT !.legal_moves = legal_moves(board),
                                            !.pc = "order"])
            /\ UNCHANGED <<board, ret>>
    /\ UNCHANGED <<depth, best_move_score, status, best_move, top_moves, op, calls,
                   entry, pushes, cutoffs>>

\* _evaluate_mobility lines 156-158: White's count, then the turn set to Black
MobilityWhite ==
    /\ status = "running"
    /\ top.pc = "mobility_white"
    /\ frames' = SetTop([top EXCEPT !.white_mobility = legal_moves_count(board),
                                    !.pc = "mobility_black"])
    /\ board' = [board EXCEPT !.turn = BLACK]
    /\ UNCHANGED <<depth, nodes_evaluated, best_move_score, ret, status, best_move,
                   top_moves, op, calls, entry, visits, pushes, cutoffs>>

\* _evaluate_mobility lines 159-163, the rest of evaluate_position and
\* _negamax lines 46-47
MobilityBlack ==
    /\ status = "running"
    /\ top.pc = "mobility_black"
    /\ LET black_mobility == legal_moves_count(board)
           restored == [board EXCEPT !.turn = top.original_turn]
           eval_score ==   _evaluate_material(restored)
                         + _evaluate_piece_positioning(restored)
                         + mobility_score(top.white_mobility, black_mobility)
                         + _evaluate_pawn_structure(restored)
                         + _evaluate_king_safety(restored)
       IN  /\ board' = restored
           /\ ret' = leaf_value(restored, eval_score)
    /\ frames' = PopFrame
    /\ UNCHANGED <<depth, nodes_evaluated, best_move_score, status, best_move,
                   top_moves, op, calls, entry, visits, pushes, cutoffs>>

\* board.legal_moves.count() raises in _evaluate_mobility: nothing catches it
\* in the evaluator or the engine, so the call ends there
CountFails ==
    /\ status = "running"
    /\ top.pc \in {"mobility_white", "mobility_black"}
    /\ status' = "raised"
    /\ UNCHANGED <<board, depth, nodes_evaluated, best_move_score, frames, ret,
                   best_move, top_moves, op, calls, entry, visits, pushes, cutoffs>>

\* the child has returned: the negation, board.pop() and the caller's update
LoopPop ==
    /\ status = "running"
    /\ top.pc = "wait"
    /\ LET next == CASE top.fn = "negamax" -> negamax_after_child(top, board, ret)
                     [] top.fn = "find"    -> find_after_child(top, board, ret)
                     [] OTHER              -> analyze_after_child(top, board, ret)
       IN  /\ frames' = SetTop(next.frame)
           /\ board' = next.board
           /\ cutoffs' = IF /\ top.fn = "negamax"
                            /\ next.frame.pc = "return"
                            /\ top.i < Len(top.legal_moves)
                         THEN cutoffs + 1 ELSE cutoffs
    /\ ret' = 0
    /\ UNCHANGED <<depth, nodes_evaluated, best_move_score, status, best_move,
                   top_moves, op, calls, entry, visits, pushes>>

\* _negamax line 64
NegamaxReturn ==
    /\ status = "running"
    /\ top.fn = "negamax"
    /\ top.pc = "return"
    /\ ret' = top.max_score
    /\ frames' = PopFrame
    /\ UNCHANGED <<board, depth, nodes_evaluated, best_move_score, status, best_move,
                   top_moves, op, calls, entry, visits, pushes, cutoffs>>

\* find_best_move lines 38-39
FinishFind ==
    /\ status = "running"
    /\ top.fn = "find"
    /\ top.pc = "return"
    /\ best_move_score' = reported_score(top.best_score, top.color_multiplier)
    /\ best_move' = top.best_move
    /\ frames' = << >>
    /\ status' = "done"
    /\ UNCHANGED <<board, depth, nodes_evaluated, ret, top_moves, op, calls, entry,
                   visits, pushes, cutoffs>>

\* analyze_position lines 103-105
FinishAnalyze ==
    /\ status = "running"
    /\ top.fn = "analyze"
    /\ top.pc = "return"
    /\ top_moves' = top_move_scores(top.move_scores)
    /\ frames' = << >>
    /\ status' = "done"
    /\ UNCHANGED <<board, depth, nodes_evaluated, best_move_score, ret, best_move, op,
                   calls, entry, visits, pushes, cutoffs>>

Next ==
    \/ StartFind
    \/ StartAnalyze
    \/ OrderPush
    \/ OrderPop
    \/ OrderDone
    \/ LoopPush
    \/ NegamaxEnter
    \/ MobilityWhite
    \/ MobilityBlack
    \/ CountFails
    \/ LoopPop
    \/ NegamaxReturn
    \/ FinishFind
    \/ FinishAnalyze

Spec == Init /\ [][Next]_vars

(***************************************************************************)
(* The king-safety term on its own: _evaluate_king_safety applied to the   *)
(* boards with the two kings on any two squares that do not touch.         *)
(***************************************************************************)
\* 8/8/8/8/8/8/4P3/8 b - - 0 with the White king on wk and the Black king on
\* bk: the pawn keeps the material sufficient, so evaluate_position reaches
\* the five terms
KingBoards ==
    { Board((wk :> WK) @@ (bk :> BK) @@ (12 :> WP), BLACK, NoSquare, 0) :
          <<wk, bk>> \in { p \in (SQUARES \ {12}) \X (SQUARES \ {12}) :
                              Max(Abs(square_file(p[1]) - square_file(p[2])),
                                  Abs(square_rank(p[1]) - square_rank(p[2]))) > 1 } }

KingSafetyInit ==
    /\ board \in KingBoards
    /\ depth = 1
    /\ nodes_evaluated = 0
    /\ best_move_score = 0
    /\ frames = << >>
    /\ ret = 0
    /\ status = "idle"
    /\ best_move = NoMove
    /\ top_moves = << >>
    /\ op = "none"
    /\ calls = 0
    /\ entry = board
    /\ visits = 0
    /\ pushes = 0
    /\ cutoffs = 0

\* score += self._evaluate_king_safety(board), evaluator.py line 114
EvaluateKingSafety ==
    /\ status = "idle"
    /\ op = "none"
    /\ ret' = _evaluate_king_safety(board)
    /\ op' = "king_safety"
    /\ status' = "done"
    /\ UNCHANGED <<board, depth, nodes_evaluated, best_move_score, frames, best_move,
                   top_moves, calls, entry, visits, pushes, cutoffs>>

KingSafetyNext == EvaluateKingSafety

KingSafetySpec == KingSafetyInit /\ [][KingSafetyNext]_vars

(***************************************************************************)
(* Reference definitions the properties are stated with.                   *)
(***************************************************************************)
SetMax(S) == CHOOSE x \in S : \A y \in S : y <= x
SetMin(S) == CHOOSE x \in S : \A y \in S : x <= y

RECURSIVE Minimax(_, _)
\* plain minimax in the White-positive convention: White takes the largest
\* evaluation d plies ahead, Black the smallest, and nothing is pruned
Minimax(b, d) ==
    IF d = 0 \/ is_game_over(b) THEN evaluate_position(b)
    ELSE LET below == { Minimax(push(b, m), d - 1) : m \in legal_move_set(b) }
         IN  IF b.turn = WHITE THEN SetMax(below) ELSE SetMin(below)

\* minimax from a root whose legal moves are all tried, d >= 1 plies deep
RootMinimax(b, d) ==
    LET below == { Minimax(push(b, m), d - 1) : m \in legal_move_set(b) }
    IN  IF b.turn = WHITE THEN SetMax(below) ELSE SetMin(below)

RECURSIVE NegamaxValue(_, _)
\* full-window negamax: good for the side to move, a leaf worth its
\* evaluation times the sign of the side to move there
NegamaxValue(b, d) ==
    IF d = 0 \/ is_game_over(b)
    THEN evaluate_position(b) * (IF b.turn = WHITE THEN 1 ELSE -1)
    ELSE SetMax({ -NegamaxValue(push(b, m), d - 1) : m \in legal_move_set(b) })

\* the negamax value of a root whose legal moves are all tried
RootNegamax(b, d) ==
    SetMax({ -NegamaxValue(push(b, m), d - 1) : m \in legal_move_set(b) })

has_legal_move(b) == legal_move_set(b) # {}

\* the moves of the position that checkmate at once
mating_moves(b) == { m \in legal_move_set(b) : is_checkmate(push(b, m)) }

\* the priority of a move as the ordering is described: the capture term from
\* the piece the move takes, the promotion term, the check bonus
described_priority(b, move) ==
    LET taken == IF is_en_passant(b, move) THEN PAWN
                 ELSE piece_type_of(b.pieces[move.to_square])
        mover == piece_type_of(b.pieces[move.from_square])
    IN    (IF is_capture(b, move)
           THEN 10 * PIECE_VALUES[taken] - PIECE_VALUES[mover] ELSE 0)
        + (IF move.promotion # None THEN PIECE_VALUES[move.promotion] ELSE 0)
        + (IF is_check(push(b, move)) THEN 50 ELSE 0)

\* the place of an element in a sequence without repetitions
IndexIn(seq, x) == CHOOSE j \in 1 .. Len(seq) : seq[j] = x

\* a top-level call has returned
returned == status = "done"

(***************************************************************************)
(* The properties.                                                         *)
(***************************************************************************)

\* C1: when find_best_move or analyze_position returns from a search of depth
\* at least 1, the board is the board the call was given: the same
\* occupancy, side to move, en passant square, clock and stack of applied
\* moves; every push of the loops and of the move ordering has been undone,
\* cutoffs included.
C1_BoardRestored ==
    (returned /\ depth >= 1) => board = entry

\* C1 witness: a find_best_move of depth 2 or more has returned after beta
\* cutoffs, with moves pushed on the way, and the board is as it was given.
C1_Witness ==
    /\ returned
    /\ op = "find"
    /\ depth >= 2
    /\ cutoffs > 0
    /\ pushes > 0
    /\ board = entry

\* C2: for a position with a legal move and a depth of 1 or more, the score
\* find_best_move reports is the value plain minimax gives the position at
\* that depth: pruning and the narrowing of alpha at the root change nothing.
C2_PruningExact ==
    (returned /\ op = "find" /\ depth >= 1 /\ has_legal_move(entry))
        => best_move_score = RootMinimax(entry, depth)

\* C2 witness: a find_best_move at the deepest depth has returned a move
\* after at least one beta cutoff.
C2_Witness ==
    /\ returned
    /\ op = "find"
    /\ depth = MaxDepth
    /\ cutoffs > 0
    /\ best_move # NoMove

\* C3: if the side to move can checkmate at once, find_best_move at any depth
\* of 1 or more returns a move that checkmates, and the position after it
\* evaluates to the mate score, signed against the side that is mated.
C3_MateInOnePlayed ==
    (returned /\ op = "find" /\ depth >= 1 /\ mating_moves(entry) # {})
        => /\ best_move \in mating_moves(entry)
           /\ evaluate_position(push(entry, best_move)) =
                  (IF entry.turn = WHITE THEN MATE_SCORE ELSE -MATE_SCORE)

\* C4: find_best_move of depth 0 searches nothing below the position it is
\* given: it applies no move, and the node counter is 1 when it returns.
C4_DepthZeroIsStatic ==
    (op = "find" /\ depth = 0)
        => /\ pushes = 0
           /\ returned => nodes_evaluated = 1

\* C5: whatever calls came before, the node counter read after a top-level
\* call is the number of nodes that call visited: every call, analyze_position
\* too, starts from zero.
C5_CounterIsPerCall ==
    returned => nodes_evaluated = visits

\* C6: from a position without legal moves find_best_move returns no move and
\* a score that is zero or not a number of the evaluation scale, and
\* analyze_position returns the empty list; neither applies a move or visits
\* a node, and the board is untouched.
C6_NoLegalMoves ==
    (returned /\ ~has_legal_move(entry))
        => /\ op = "find" => /\ best_move = NoMove
                             /\ best_move_score \in {0, INF, -INF}
           /\ op = "analyze" => top_moves = << >>
           /\ pushes = 0
           /\ visits = 0
           /\ board = entry

\* C6 witness: find_best_move has returned from a position where the side to
\* move has no legal move, with no move to play.
C6_Witness ==
    /\ returned
    /\ op = "find"
    /\ ~has_legal_move(entry)
    /\ best_move = NoMove

\* C7: the score find_best_move reports is White-positive whoever is to move:
\* the full-window negamax value of the root, which is good for the side to
\* move, times +1 with White to move at the root and -1 with Black.
C7_WhitePositive ==
    (returned /\ op = "find" /\ depth >= 1 /\ has_legal_move(entry))
        => best_move_score =
               (IF entry.turn = WHITE THEN 1 ELSE -1) * RootNegamax(entry, depth)

\* C7 witness: a find_best_move with Black to move at the root has returned a
\* move and a score other than zero.
C7_Witness ==
    /\ returned
    /\ op = "find"
    /\ depth >= 1
    /\ entry.turn = BLACK
    /\ best_move # NoMove
    /\ best_move_score # 0

\* C8: what _order_moves hands back is the list it was given, rearranged so
\* that the priorities never increase, moves of equal priority staying in the
\* order the board enumerated them, the priority being 10 x the value of the
\* piece taken minus the value of the piece moving for a capture, plus the
\* value of the promotion piece, plus 50 for a check.
C8_OrderedByPriority ==
    (status = "running" /\ top.fn \in {"find", "negamax"} /\ top.pc = "loop"
        /\ top.i = 1)
        => LET given  == legal_moves(board)
               result == top.legal_moves
               n      == Len(given)
               prio(j) == described_priority(board, result[j])
           IN  /\ Len(result) = n
               /\ { result[j] : j \in 1 .. n } = { given[j] : j \in 1 .. n }
               /\ \A j \in 1 .. n : \A k \in (j + 1) .. n :
                     /\ prio(j) >= prio(k)
                     /\ prio(j) = prio(k)
                            => IndexIn(given, result[j]) < IndexIn(given, result[k])

\* C9: when _evaluate_mobility has ended, by returning or because a count of
\* legal moves failed, the side to move of the board is what it was before:
\* the side that did not make the last move applied.
C9_TurnRestored ==
    LET before_evaluation == ~board.saved[Len(board.saved)].turn
    IN  /\ (status = "running" /\ top.pc = "wait") => board.turn = before_evaluation
        /\ status = "raised" => /\ board.turn = top.original_turn
                                /\ board.turn = before_evaluation

\* C10: throughout find_best_move of depth d >= 1 the moves applied and not
\* yet undone, the speculative push of the move ordering among them, are at
\* most d; they sit as a stack on the position the call was given, and none
\* is left when the call has returned.
C10_AppliedWithinDepth ==
    (op = "find" /\ depth >= 1)
        => /\ applied \in 0 .. depth
           /\ SubSeq(board.move_stack, 1, Len(entry.move_stack)) = entry.move_stack
           /\ applied > 0 => board.saved[Len(entry.saved) + 1].pieces = entry.pieces
           /\ returned => applied = 0

\* C10 witness: in a find_best_move of depth 2 or more the move ordering of a
\* node has its speculative move applied on top of depth - 1 others.
C10_Witness ==
    /\ status = "running"
    /\ op = "find"
    /\ depth >= 2
    /\ top.pc = "order_pushed"
    /\ applied = depth

\* C11: for a position with a legal move, either side to move, and a depth
\* of 1 or more, the first pair analyze_position returns is a best move for
\* the side to move: its score is the score find_best_move reports for the
\* position at that depth, and no legal root move has a greater negamax
\* value for the side to move.
C11_FirstIsBest ==
    (returned /\ op = "analyze" /\ depth >= 1 /\ has_legal_move(entry))
        => LET first    == top_moves[1]
               value(m) == -NegamaxValue(push(entry, m), depth - 1)
           IN  /\ first.move \in legal_move_set(entry)
               /\ first.score = reported_score(RootNegamax(entry, depth),
                                               color_multiplier_of(entry))
               /\ \A m \in legal_move_set(entry) : value(m) <= value(first.move)

\* C12: wherever the two kings stand, the king-safety term is 20 for a White
\* king whose file is not one of the two central files 3 and 4, less 20 for
\* a Black king whose file is not one of them:
\* 20 * ([White king file not in {3,4}] - [Black king file not in {3,4}]).
C12_KingSafetyFlat ==
    (returned /\ op = "king_safety")
        => LET outside(color) ==
                   IF square_file(king(board.pieces, color)) \notin {3, 4}
                   THEN 1 ELSE 0
           IN  ret = 20 * (outside(WHITE) - outside(BLACK))

====
